---------------------------- MODULE Spec2Model ----------------------------
(***************************************************************************)
(* Model of the client-side script of BLCK-B.github.io:                    *)
(*   src/scripts.js        the desktop page script (budget 80)             *)
(*   src/unnamed/part_000  the mobile-aware page script (budget 135)       *)
(* The module models announcementPreview, the async function run on the    *)
(* load event: fetch, body read, parse into a detached div, three marker   *)
(* lookups, truncation, assembly of the preview container and the mount.   *)
(* JavaScript strings are sequences of one-character strings; DOM nodes    *)
(* are pairs <<kind, index>>; the DOM is a record of three functions over  *)
(* the nodes that exist (children, class list, own text).                  *)
(***************************************************************************)
EXTENDS Integers, Sequences, FiniteSets, TLC

VARIABLES
    variant,      \* which page script runs: "scripts" or "mobile"
    budget,       \* the second argument of slice(0, _) at line 31
    dom,          \* every node that exists, live or detached
    page0,        \* the live page as it was when the script was loaded
    onload,       \* window.onload
    loadFired,    \* whether the browser has fired the load event
    invocations,  \* number of calls of announcementPreview
    requests,     \* URLs handed to fetch(), in order
    fetched,      \* how the network settled the fetch
    pc,           \* position of announcementPreview
    loc,          \* the local variables of announcementPreview
    log,          \* entries written with console.error
    promise,      \* state of the promise announcementPreview returned
    innerWidth,   \* window.innerWidth
    scrollSrc,    \* pageYOffset, documentElement.scrollTop, body.scrollTop
    style,        \* the inline style of each element
    lastScroll    \* what the latest scroll notification did

vars == <<variant, budget, dom, page0, onload, loadFired, invocations,
          requests, fetched, pc, loc, log, promise,
          innerWidth, scrollSrc, style, lastScroll>>

\* what announcementPreview never touches
scrollVars == <<innerWidth, scrollSrc, style, lastScroll>>

\* what the scroll listeners never touch
previewVars == <<variant, budget, dom, page0, onload, loadFired, invocations,
                 requests, fetched, pc, loc, log, promise>>

-----------------------------------------------------------------------------
(* Bounds of the model *)

\* longest tail appended to the padding of a generated text
MaxTail == 2
\* largest small truncation budget of the parametric truncation check
MaxBudget == 6
\* largest number of children the mount point has at load
MaxOld == 2

-----------------------------------------------------------------------------
(* Program constants *)

SliceLenScripts == 80
SliceLenMobile == 135

Variants == {"scripts", "mobile"}

SliceLen(v) == IF v = "scripts" THEN SliceLenScripts ELSE SliceLenMobile

URL == "https://blck-b.github.io/announcements.html"

Ellipsis == <<".", ".", ".">>

Space == " "

ContainerClass == "antext"

\* the selectors of lines 27-29 and 46, without the leading dot
TitleMarker == "antitle"
DateMarker == "andate"
TextMarker == "antext"
MountMarker == "announcements"

-----------------------------------------------------------------------------
(* JavaScript strings *)

Min(a, b) == IF a < b THEN a ELSE b
Max(a, b) == IF a > b THEN a ELSE b

\* String.prototype.slice(start, end): negative indices count from the end,
\* both are clamped to [0, length], an empty range gives the empty string
JsSlice(s, start, end) ==
    LET len == Len(s)
        from == IF start < 0 THEN Max(len + start, 0) ELSE Min(start, len)
        to == IF end < 0 THEN Max(len + end, 0) ELSE Min(end, len)
    IN  IF from >= to THEN <<>> ELSE SubSeq(s, from + 1, to)

\* charAt read as if strings were indexed from 1
CharAtOneBased(s, i) == IF i >= 1 /\ i <= Len(s) THEN <<s[i]>> ELSE <<>>

\* String.prototype.charAt(i): the empty string when i is out of range
CharAt(s, i) == IF i >= 0 /\ i < Len(s) THEN <<s[i + 1]>> ELSE <<>>

-----------------------------------------------------------------------------
(* DOM nodes *)

Null == <<"null", 0>>
Document == <<"document", 0>>
Body == <<"body", 0>>
TopImg == <<"topimg", 0>>
Mount == <<"announcements", 0>>
Old(i) == <<"old", i>>
TempDiv == <<"tempDiv", 0>>
Elem(i) == <<"elem", i>>
Container == <<"p", 0>>

Range(s) == {s[i] : i \in DOMAIN s}

Remove(s, n) == SelectSeq(s, LAMBDA m : m # n)

Nodes(d) == DOMAIN d.kids

\* the nodes below the nodes of s, in document order (preorder)
RECURSIVE Preorder(_, _)
Preorder(d, s) ==
    IF s = <<>> THEN <<>>
    ELSE <<Head(s)>> \o Preorder(d, d.kids[Head(s)]) \o Preorder(d, Tail(s))

Descendants(d, n) == Preorder(d, d.kids[n])

\* Element.querySelector("." + c): the first descendant in document order
\* that carries class c, or null
QuerySelector(d, root, c) ==
    LET hits == SelectSeq(Descendants(d, root), LAMBDA n : c \in d.cls[n])
    IN  IF hits = <<>> THEN Null ELSE Head(hits)

\* Node.textContent (getter): the node's own text, then its descendants'
RECURSIVE ConcatText(_, _)
ConcatText(d, s) ==
    IF s = <<>> THEN <<>> ELSE d.txt[Head(s)] \o ConcatText(d, Tail(s))

TextContent(d, n) == d.txt[n] \o ConcatText(d, Descendants(d, n))

\* the setter written as +=: the new text is added to the old
SetTextContentAdding(d, n, s) ==
    [d EXCEPT !.kids[n] = <<>>, !.txt[n] = TextContent(d, n) \o s]

\* Node.textContent (setter): all children are removed, the text replaced
SetTextContent(d, n, s) ==
    [d EXCEPT !.kids[n] = <<>>, !.txt[n] = s]

\* document.createElement: a new node, detached, no class, no text
CreateElement(d, n) ==
    [kids |-> (n :> <<>>) @@ d.kids,
     cls  |-> (n :> {}) @@ d.cls,
     txt  |-> (n :> <<>>) @@ d.txt]

\* classList.add
ClassListAdd(d, n, c) == [d EXCEPT !.cls[n] = @ \cup {c}]

\* appendChild that leaves the child in its old parent as well
AppendChildKeeping(d, parent, child) ==
    [d EXCEPT !.kids[parent] = Append(Remove(@, child), child)]

\* Node.appendChild(child) for a child that is a node: the child leaves its
\* current parent, if any, and becomes the last child of parent
AppendChild(d, parent, child) ==
    [d EXCEPT !.kids = [m \in DOMAIN d.kids |->
        IF m = parent THEN Append(Remove(d.kids[m], child), child)
        ELSE Remove(d.kids[m], child)]]

\* Element.innerHTML (setter) on a new div: one element per element of the
\* markup, in markup order, with the markup's classes and text
SetInnerHTML(d, n, html) ==
    LET new == {Elem(i) : i \in DOMAIN html}
        idx(e) == e[2]
    IN  [kids |-> [m \in Nodes(d) \cup new |->
                     IF m = n THEN [i \in DOMAIN html |-> Elem(i)]
                     ELSE IF m \in new THEN <<>> ELSE d.kids[m]],
         cls  |-> [m \in Nodes(d) \cup new |->
                     IF m \in new THEN html[idx(m)].cls ELSE d.cls[m]],
         txt  |-> [m \in Nodes(d) \cup new |->
                     IF m \in new THEN html[idx(m)].txt ELSE d.txt[m]]]

\* the nodes of the live page: the document and everything below it
LiveNodes(d) == {Document} \cup Range(Descendants(d, Document))

\* the live page: the DOM restricted to the live nodes
LivePage(d) ==
    LET live == LiveNodes(d)
    IN  [kids |-> [n \in live |-> d.kids[n]],
         cls  |-> [n \in live |-> d.cls[n]],
         txt  |-> [n \in live |-> d.txt[n]]]

\* the parents of n: the nodes that list n among their children
Parents(d, n) == {m \in Nodes(d) : n \in Range(d.kids[m])}

-----------------------------------------------------------------------------
(* Inputs: the page at load, the texts and the fetched documents *)

Undefined == <<"undefined", 0>>

\* the page the script is loaded into: a top image and, when hasMount, the
\* mount point with nOld children of its own
InitialPage(hasMount, nOld) ==
    LET olds == [i \in 1..nOld |-> Old(i)]
        top == IF hasMount THEN <<TopImg, Mount>> ELSE <<TopImg>>
        all == {Document, Body, TopImg}
               \cup (IF hasMount THEN {Mount} \cup Range(olds) ELSE {})
    IN  [kids |-> [n \in all |->
                     IF n = Document THEN <<Body>>
                     ELSE IF n = Body THEN top
                     ELSE IF n = Mount THEN olds ELSE <<>>],
         cls  |-> [n \in all |->
                     IF n = Mount THEN {MountMarker}
                     ELSE IF n = TopImg THEN {"topimg"} ELSE {}],
         txt  |-> [n \in all |-> IF n \in Range(olds) THEN <<"o">> ELSE <<>>]]

Pages ==
    {InitialPage(FALSE, 0)} \cup {InitialPage(TRUE, k) : k \in 0..MaxOld}

Chars == {"a", Space, "\t", "\n"}

Tails == UNION {[1..k -> Chars] : k \in 0..MaxTail}

Pad(k) == [i \in 1..k |-> "a"]

HelloWorld == <<"H", "e", "l", "l", "o", " ", "w", "o", "r", "l", "d">>
HelloSpace == <<"H", "e", "l", "l", "o", " ">>

\* a text cut at n right after two spaces
TwoSpaces(n) == Pad(n - 2) \o <<Space, Space, "a">>

\* texts that end before, at and after the cut at n, the two texts of the
\* worked examples, and one cut after two spaces
TextsFor(n) ==
    {Pad(k) \o t : k \in {0} \cup {j \in (n - 2)..n : j >= 0}, t \in Tails}
    \cup {HelloWorld, HelloSpace}
    \cup (IF n >= 2 THEN {TwoSpaces(n)} ELSE {})

FullShape == <<{TitleMarker}, {DateMarker}, {TextMarker}>>

Keep(s, S) ==
    LET F[i \in 0..Len(s)] ==
            IF i = 0 THEN <<>>
            ELSE IF i \in S THEN Append(F[i - 1], s[i]) ELSE F[i - 1]
    IN  F[Len(s)]

\* the class lists of the elements of a fetched document, in markup order:
\* any of the three marked elements may be missing, one element may carry
\* two markers, the elements may come in another order
Shapes ==
    {Keep(FullShape, S) : S \in SUBSET (1..3)}
    \cup {<<{TitleMarker, DateMarker}, {TextMarker}>>,
          <<{TextMarker}, {DateMarker}, {TitleMarker}>>}

MkDoc(shape, t) ==
    [i \in DOMAIN shape |->
        [cls |-> shape[i],
         txt |-> IF TextMarker \in shape[i] THEN t
                 ELSE IF TitleMarker \in shape[i] THEN <<"T">> ELSE <<"D">>]]

DocsFor(n) == {MkDoc(sh, t) : sh \in Shapes, t \in TextsFor(n)}

Statuses == {200, 404}

NoError == [name |-> "none", line |-> 0]

\* the error of a property access on null or of appendChild(null)
TypeError(line) == [name |-> "TypeError", line |-> line]

NoResponse == [status |-> 0, body |-> <<>>, readable |-> FALSE]

InitLoc ==
    [response |-> NoResponse, htmlContent |-> <<>>, tempDiv |-> Undefined,
     titleElement |-> Undefined, dateElement |-> Undefined,
     textElement |-> Undefined, shortenedContent |-> <<>>,
     displayContainer |-> Undefined, targetContainer |-> Undefined,
     error |-> NoError]

-----------------------------------------------------------------------------
(* JavaScript numbers, kept exact: a number is a fraction <<n, d>> in lowest
   terms with d > 0 *)

Abs(n) == IF n < 0 THEN -n ELSE n

RECURSIVE Gcd(_, _)
Gcd(a, b) == IF b = 0 THEN a ELSE Gcd(b, a % b)

Rat(n, d) == LET g == Gcd(Abs(n), d) IN <<n \div g, d \div g>>

Num(n) == <<n, 1>>

RSub(a, b) == Rat(a[1] * b[2] - b[1] * a[2], a[2] * b[2])

RMul(a, b) == Rat(a[1] * b[1], a[2] * b[2])

\* a / b for b > 0
RDiv(a, b) == Rat(a[1] * b[2], a[2] * b[1])

RLess(a, b) == a[1] * b[2] < b[1] * a[2]

\* Math.max
MathMax(a, b) == IF RLess(a, b) THEN b ELSE a

-----------------------------------------------------------------------------
(* The scroll listeners: src/scripts.js lines 2-8 and 10-16,
   src/unnamed/part_000 lines 2-17 *)

Breakpoint == 768
FadeDistance == 200
HeightStart == 200
HeightFloor == 60

\* 0.8, 0.5 and the factor 0 of part_000 lines 12-13
ScaleFloor == Rat(4, 5)
HeightRate == Rat(1, 2)
ScaleRate == Num(0)

TopImgClass == "topimg"
HeaderContentClass == "mobilecont-content"
HeaderImageClass == "mobilecont-image"

HeaderContent == <<"mobilecont-content", 0>>
HeaderImage == <<"mobilecont-image", 0>>

HeaderClasses == {TopImgClass, HeaderContentClass, HeaderImageClass}

\* a page whose header holds the elements named in present, followed by the
\* mount point when hasMount
HeaderPage(present, hasMount, nOld) ==
    LET olds == [i \in 1..nOld |-> Old(i)]
        head == SelectSeq(<<HeaderContent, HeaderImage, TopImg>>,
                          LAMBDA n : n[1] \in present)
        top == IF hasMount THEN Append(head, Mount) ELSE head
        all == {Document, Body} \cup Range(top)
               \cup (IF hasMount THEN Range(olds) ELSE {})
    IN  [kids |-> [n \in all |->
                     IF n = Document THEN <<Body>>
                     ELSE IF n = Body THEN top
                     ELSE IF n = Mount THEN olds ELSE <<>>],
         cls  |-> [n \in all |->
                     IF n = Mount THEN {MountMarker}
                     ELSE IF n \in Range(head) THEN {n[1]} ELSE {}],
         txt  |-> [n \in all |-> IF n \in Range(olds) THEN <<"o">> ELSE <<>>]]

\* the pages of the scroll listeners: any of the three elements may be missing
ScrollPages == {HeaderPage(P, TRUE, 0) : P \in SUBSET HeaderClasses}

\* a value read from the window or the document: a number or undefined
JsNum(n) == <<"number", n>>
JsUndefined == <<"undefined", 0>>

\* ToBoolean of such a value: undefined and 0 are falsy
Truthy(v) == v[1] = "number" /\ v[2] # 0

Offsets == {0, 1, 200, 280, 281, 400, 1000}

\* what the three sources of the scroll offset may hold at a scroll event:
\* every mix of undefined, zero and non-zero behind a falsy pageYOffset, and
\* each offset in pageYOffset with the other two sources set or not
ScrollSamples ==
    [pageYOffset : {JsUndefined, JsNum(0)},
     docScrollTop : {JsUndefined, JsNum(0), JsNum(100)},
     bodyScrollTop : {JsUndefined, JsNum(0), JsNum(50)}]
    \cup [pageYOffset : {JsNum(o) : o \in Offsets \ {0}},
          docScrollTop : {JsNum(100)}, bodyScrollTop : {JsNum(50)}]
    \cup [pageYOffset : {JsNum(o) : o \in Offsets \ {0}},
          docScrollTop : {JsUndefined}, bodyScrollTop : {JsNum(0)}]

ZeroSample ==
    [pageYOffset |-> JsNum(0), docScrollTop |-> JsNum(0),
     bodyScrollTop |-> JsNum(0)]

Widths == {767, 768, 1024}

\* the chain written with ??, which skips undefined but keeps 0
ScrollPositionNullish(src) ==
    IF src.pageYOffset # JsUndefined
    THEN [value |-> src.pageYOffset[2], reads |-> <<"pageYOffset">>]
    ELSE IF src.docScrollTop # JsUndefined
    THEN [value |-> src.docScrollTop[2],
          reads |-> <<"pageYOffset", "docScrollTop">>]
    ELSE IF src.bodyScrollTop # JsUndefined
    THEN [value |-> src.bodyScrollTop[2],
          reads |-> <<"pageYOffset", "docScrollTop", "bodyScrollTop">>]
    ELSE [value |-> 0,
          reads |-> <<"pageYOffset", "docScrollTop", "bodyScrollTop">>]

\* window.pageYOffset || document.documentElement.scrollTop
\*   || document.body.scrollTop || 0
\* a || b evaluates b only when a is falsy; reads lists the sources evaluated
ScrollPosition(src) ==
    IF Truthy(src.pageYOffset)
    THEN [value |-> src.pageYOffset[2], reads |-> <<"pageYOffset">>]
    ELSE IF Truthy(src.docScrollTop)
    THEN [value |-> src.docScrollTop[2],
          reads |-> <<"pageYOffset", "docScrollTop">>]
    ELSE IF Truthy(src.bodyScrollTop)
    THEN [value |-> src.bodyScrollTop[2],
          reads |-> <<"pageYOffset", "docScrollTop", "bodyScrollTop">>]
    ELSE [value |-> 0,
          reads |-> <<"pageYOffset", "docScrollTop", "bodyScrollTop">>]

\* the comparison written with > instead of >=
IsWideStrict(w) == w > Breakpoint

\* window.innerWidth >= 768
IsWide(w) == w >= Breakpoint

\* the opacity clamped to [0, 1]
OpacityClamped(pos) ==
    MathMax(Num(0), RSub(Num(1), RDiv(Num(pos), Num(FadeDistance))))

\* 1 - scrollPosition / 200
Opacity(pos) == RSub(Num(1), RDiv(Num(pos), Num(FadeDistance)))

\* the scale with a factor of 0.001 in place of 0
ScaleValueShrinking(pos) ==
    MathMax(ScaleFloor, RSub(Num(1), RMul(Num(pos), Rat(1, 1000))))

\* Math.max(0.8, 1 - scrollPosition * 0)
ScaleValue(pos) == MathMax(ScaleFloor, RSub(Num(1), RMul(Num(pos), ScaleRate)))

\* the height without its floor
HeightValueNoFloor(pos) ==
    RSub(Num(HeightStart), RMul(Num(pos), HeightRate))

\* Math.max(60, 200 - scrollPosition * 0.5)
HeightValue(pos) ==
    MathMax(Num(HeightFloor), RSub(Num(HeightStart), RMul(Num(pos), HeightRate)))

\* an inline style with nothing set
NoStyle == [opacity |-> <<>>, transform |-> <<>>, height |-> <<>>]

\* a write relative to the value already set: style.opacity *= v
SetStyleRelative(st, n, prop, v) ==
    IF n \in DOMAIN st
    THEN [st EXCEPT ![n][prop] =
             IF prop = "opacity" /\ @ # <<>> THEN RMul(@, v) ELSE v]
    ELSE (n :> [NoStyle EXCEPT ![prop] = v]) @@ st

\* element.style.<prop> = v
SetStyle(st, n, prop, v) ==
    IF n \in DOMAIN st THEN [st EXCEPT ![n][prop] = v]
    ELSE (n :> [NoStyle EXCEPT ![prop] = v]) @@ st

\* "scale(" + scaleValue + ")" and heightValue + "px"
ScaleText(v) == <<"scale(", v, ")">>
PxText(v) == <<v, "px">>

\* what one scroll notification has done so far: the styles, the errors its
\* listeners threw, the number of listeners run, the branch each took, the
\* selectors looked up, the offset sources read and the offsets computed
StartOfEvent(st) ==
    [style |-> st, errors |-> <<>>, runs |-> 0, branches |-> <<>>,
     lookups |-> <<>>, reads |-> <<>>, positions |-> <<>>]

\* the scripts.js listener with a guard against a missing element
FadeListenerGuarded(at, acc, d, w, src) ==
    IF IsWide(w)
    THEN LET topImage == QuerySelector(d, Document, TopImgClass)
             sp == ScrollPosition(src)
             seen == [acc EXCEPT !.runs = @ + 1,
                                 !.branches = Append(@, "wide"),
                                 !.lookups = @ \o <<TopImgClass>>,
                                 !.reads = @ \o sp.reads,
                                 !.positions = Append(@, sp.value)]
         IN  IF topImage = Null THEN seen
             ELSE [seen EXCEPT !.style =
                      SetStyle(@, topImage, "opacity", Opacity(sp.value))]
    ELSE [acc EXCEPT !.runs = @ + 1, !.branches = Append(@, "narrow")]

\* the scripts.js listener without the viewport test
FadeListenerAlways(at, acc, d, w, src) ==
    LET topImage == QuerySelector(d, Document, TopImgClass)
        sp == ScrollPosition(src)
        seen == [acc EXCEPT !.runs = @ + 1,
                            !.branches = Append(@, "wide"),
                            !.lookups = @ \o <<TopImgClass>>,
                            !.reads = @ \o sp.reads,
                            !.positions = Append(@, sp.value)]
    IN  IF topImage = Null
        THEN [seen EXCEPT !.errors = Append(@, TypeError(at + 4))]
        ELSE [seen EXCEPT !.style =
                 SetStyle(@, topImage, "opacity", Opacity(sp.value))]

\* the listener of scripts.js registered at line at (2 or 10): the lookup,
\* the offset and the write are all inside the if
FadeListener(at, acc, d, w, src) ==
    IF IsWide(w)
    THEN LET topImage == QuerySelector(d, Document, TopImgClass)
             sp == ScrollPosition(src)
             seen == [acc EXCEPT !.runs = @ + 1,
                                 !.branches = Append(@, "wide"),
                                 !.lookups = @ \o <<TopImgClass>>,
                                 !.reads = @ \o sp.reads,
                                 !.positions = Append(@, sp.value)]
         IN  IF topImage = Null
             THEN [seen EXCEPT !.errors = Append(@, TypeError(at + 4))]
             ELSE [seen EXCEPT !.style =
                      SetStyle(@, topImage, "opacity", Opacity(sp.value))]
    ELSE [acc EXCEPT !.runs = @ + 1, !.branches = Append(@, "narrow")]

\* the part_000 listener computing both values from both elements before
\* it writes either: with one of the two missing nothing is written
FadeOrScaleListenerChecked(at, acc, d, w, src) ==
    LET headerContent == QuerySelector(d, Document, HeaderContentClass)
        headerImage == QuerySelector(d, Document, HeaderImageClass)
        topImage == QuerySelector(d, Document, TopImgClass)
        sp == ScrollPosition(src)
        seen == [acc EXCEPT !.runs = @ + 1,
                            !.branches = Append(@, IF IsWide(w) THEN "wide"
                                                   ELSE "narrow"),
                            !.lookups = @ \o <<HeaderContentClass,
                                               HeaderImageClass, TopImgClass>>,
                            !.reads = @ \o sp.reads,
                            !.positions = Append(@, sp.value)]
    IN  IF IsWide(w)
        THEN IF topImage = Null
             THEN [seen EXCEPT !.errors = Append(@, TypeError(at + 7))]
             ELSE [seen EXCEPT !.style =
                      SetStyle(@, topImage, "opacity", Opacity(sp.value))]
        ELSE IF headerImage = Null \/ headerContent = Null
             THEN [seen EXCEPT !.errors = Append(@, TypeError(at + 12))]
             ELSE [seen EXCEPT !.style =
                      SetStyle(SetStyle(@, headerImage, "transform",
                                        ScaleText(ScaleValue(sp.value))),
                               headerContent, "height",
                               PxText(HeightValue(sp.value)))]

\* the part_000 listener without the else: the wide branch falls through to
\* the writes of the narrow branch
FadeOrScaleListenerNoElse(at, acc, d, w, src) ==
    LET headerContent == QuerySelector(d, Document, HeaderContentClass)
        headerImage == QuerySelector(d, Document, HeaderImageClass)
        topImage == QuerySelector(d, Document, TopImgClass)
        sp == ScrollPosition(src)
        seen == [acc EXCEPT !.runs = @ + 1,
                            !.branches = Append(@, IF IsWide(w) THEN "wide"
                                                   ELSE "narrow"),
                            !.lookups = @ \o <<HeaderContentClass,
                                               HeaderImageClass, TopImgClass>>,
                            !.reads = @ \o sp.reads,
                            !.positions = Append(@, sp.value)]
        faded == IF IsWide(w)
                 THEN SetStyle(seen.style, topImage, "opacity", Opacity(sp.value))
                 ELSE seen.style
    IN  IF IsWide(w) /\ topImage = Null
        THEN [seen EXCEPT !.errors = Append(@, TypeError(at + 7))]
        ELSE IF headerImage = Null
        THEN [seen EXCEPT !.style = faded,
                          !.errors = Append(@, TypeError(at + 12))]
        ELSE LET scaled == SetStyle(faded, headerImage, "transform",
                                    ScaleText(ScaleValue(sp.value)))
             IN  IF headerContent = Null
                 THEN [seen EXCEPT !.style = scaled,
                                   !.errors = Append(@, TypeError(at + 13))]
                 ELSE [seen EXCEPT !.style =
                          SetStyle(scaled, headerContent, "height",
                                   PxText(HeightValue(sp.value)))]

\* the listener of part_000, registered at line 2: three lookups and the
\* offset first (lines 3-6), then one of the two branches
FadeOrScaleListener(at, acc, d, w, src) ==
    LET headerContent == QuerySelector(d, Document, HeaderContentClass)
        headerImage == QuerySelector(d, Document, HeaderImageClass)
        topImage == QuerySelector(d, Document, TopImgClass)
        sp == ScrollPosition(src)
        seen == [acc EXCEPT !.runs = @ + 1,
                            !.branches = Append(@, IF IsWide(w) THEN "wide"
                                                   ELSE "narrow"),
                            !.lookups = @ \o <<HeaderContentClass,
                                               HeaderImageClass, TopImgClass>>,
                            !.reads = @ \o sp.reads,
                            !.positions = Append(@, sp.value)]
    IN  IF IsWide(w)
        THEN IF topImage = Null
             THEN [seen EXCEPT !.errors = Append(@, TypeError(at + 7))]
             ELSE [seen EXCEPT !.style =
                      SetStyle(@, topImage, "opacity", Opacity(sp.value))]
        ELSE IF headerImage = Null
             THEN [seen EXCEPT !.errors = Append(@, TypeError(at + 12))]
             ELSE LET scaled == SetStyle(seen.style, headerImage, "transform",
                                         ScaleText(ScaleValue(sp.value)))
                  IN  IF headerContent = Null
                      THEN [seen EXCEPT !.style = scaled,
                                        !.errors = Append(@, TypeError(at + 13))]
                      ELSE [seen EXCEPT !.style =
                               SetStyle(scaled, headerContent, "height",
                                        PxText(HeightValue(sp.value)))]

\* the listeners each script registers with addEventListener("scroll", ...),
\* in registration order
ScrollListeners(v) ==
    IF v = "scripts"
    THEN <<[kind |-> "fade", at |-> 2], [kind |-> "fade", at |-> 10]>>
    ELSE <<[kind |-> "fadeOrScale", at |-> 2]>>

RunListener(l, acc, d, w, src) ==
    IF l.kind = "fade" THEN FadeListener(l.at, acc, d, w, src)
    ELSE FadeOrScaleListener(l.at, acc, d, w, src)

\* one scroll notification: every listener runs, in order; an error thrown
\* by one is reported and does not stop the next
RECURSIVE Dispatch(_, _, _, _, _)
Dispatch(ls, acc, d, w, src) ==
    IF ls = <<>> THEN acc
    ELSE Dispatch(Tail(ls), RunListener(Head(ls), acc, d, w, src), d, w, src)

\* no scroll notification yet
NoScroll ==
    [handled |-> FALSE, width |-> 0, at |-> "none", errors |-> <<>>,
     runs |-> 0, branches |-> <<>>, lookups |-> <<>>, reads |-> <<>>,
     positions |-> <<>>]

\* the window before any scroll: nothing scrolled, no inline style set
ScrollVarsAtLoad(w) ==
    /\ innerWidth = w
    /\ scrollSrc = ZeroSample
    /\ style = [n \in Nodes(dom) |-> NoStyle]
    /\ lastScroll = NoScroll

-----------------------------------------------------------------------------
(* The state after the scripts have run *)

\* the scripts have run to their last line: window.onload is set, the page
\* has not fired load yet
Init ==
    /\ variant \in Variants
    /\ budget = SliceLen(variant)
    /\ dom \in Pages
    /\ page0 = LivePage(dom)
    /\ onload = "announcementPreview"
    /\ loadFired = FALSE
    /\ invocations = 0
    /\ requests = <<>>
    /\ fetched = "none"
    /\ pc = "idle"
    /\ loc = InitLoc
    /\ log = <<>>
    /\ promise = "none"
    /\ ScrollVarsAtLoad(Breakpoint)

-----------------------------------------------------------------------------
(* announcementPreview, lines 19-51 *)

\* the try block closed before the mount, lines 46-47 left outside
TryBlockWithoutMount ==
    {"fetching", "reading", "parse", "lookup", "slice", "trim", "ellipsis",
     "create", "appendTitle", "appendDate", "setText", "appendText"}

\* the positions inside the try block, lines 20-48
TryBlock ==
    {"fetching", "reading", "parse", "lookup", "slice", "trim", "ellipsis",
     "create", "appendTitle", "appendDate", "setText", "appendText",
     "findTarget", "mount"}

NetworkError == [name |-> "NetworkError", line |-> 22]
BodyReadError == [name |-> "BodyReadError", line |-> 23]

\* an exception thrown at the current position: inside the try block it is
\* handed to the catch clause, outside it rejects the returned promise
Throw(e) ==
    IF pc \in TryBlock
    THEN /\ pc' = "catch"
         /\ loc' = [loc EXCEPT !.error = e]
         /\ promise' = promise
    ELSE /\ pc' = "done"
         /\ loc' = [loc EXCEPT !.error = e]
         /\ promise' = "rejected"

\* line 31 with the cut one character late
SlicedOneMore(t, n) == JsSlice(t, 0, n + 1)

\* lines 32-34 as a general trim of trailing spaces
RECURSIVE TrimmedGreedy(_)
TrimmedGreedy(sc) ==
    IF CharAt(sc, Len(sc) - 1) = <<Space>>
    THEN TrimmedGreedy(JsSlice(sc, 0, -1)) ELSE sc

\* line 31: the prefix of at most n characters
Sliced(t, n) == JsSlice(t, 0, n)

\* lines 32-34 cutting any whitespace character: space, tab or newline
TrimmedWhitespace(sc) ==
    IF CharAt(sc, Len(sc) - 1) \in {<<Space>>, <<"\t">>, <<"\n">>}
    THEN JsSlice(sc, 0, -1) ELSE sc

\* lines 32-34: the last character is cut when it is a space
Trimmed(sc) ==
    IF CharAt(sc, Len(sc) - 1) = <<Space>> THEN JsSlice(sc, 0, -1) ELSE sc

\* line 35 skipped for an empty text
WithEllipsisUnlessEmpty(sc) == IF sc = <<>> THEN sc ELSE sc \o Ellipsis

\* line 35
WithEllipsis(sc) == sc \o Ellipsis

\* line 52 and the browser: the load event fires once and calls the handler,
\* which runs to its first await, line 22, where it calls fetch
Load ==
    /\ ~loadFired
    /\ loadFired' = TRUE
    /\ IF onload = "announcementPreview"
       THEN /\ invocations' = invocations + 1
            /\ requests' = Append(requests, URL)
            /\ fetched' = "pending"
            /\ pc' = "fetching"
            /\ promise' = "pending"
       ELSE UNCHANGED <<invocations, requests, fetched, pc, promise>>
    /\ UNCHANGED <<variant, budget, dom, page0, onload, loc, log>>
    /\ UNCHANGED scrollVars

\* line 22 with a timer that gives up on a fetch still pending
TimeoutError == [name |-> "TimeoutError", line |-> 22]

FetchTimeout ==
    /\ pc = "fetching"
    /\ fetched' = "pending"
    /\ Throw(TimeoutError)
    /\ UNCHANGED <<variant, budget, dom, page0, onload, loadFired,
                   invocations, requests, log>>
    /\ UNCHANGED scrollVars

\* line 22: fetch rejects (network or transport error)
FetchReject ==
    /\ pc = "fetching"
    /\ fetched' = "rejected"
    /\ Throw(NetworkError)
    /\ UNCHANGED <<variant, budget, dom, page0, onload, loadFired,
                   invocations, requests, log>>
    /\ UNCHANGED scrollVars

\* line 22: fetch resolves with a response, whatever its status; line 23
\* calls response.text() and awaits it
FetchResolveFrom(statuses, docs) ==
    /\ pc = "fetching"
    /\ \E st \in statuses, body \in docs, rd \in BOOLEAN :
          loc' = [loc EXCEPT
                    !.response = [status |-> st, body |-> body, readable |-> rd]]
    /\ fetched' = "resolved"
    /\ pc' = "reading"
    /\ UNCHANGED <<variant, budget, dom, page0, onload, loadFired,
                   invocations, requests, log, promise>>
    /\ UNCHANGED scrollVars

FetchResolve == FetchResolveFrom(Statuses, DocsFor(budget))

\* line 23: reading the body fails
ReadReject ==
    /\ pc = "reading"
    /\ ~loc.response.readable
    /\ Throw(BodyReadError)
    /\ UNCHANGED <<variant, budget, dom, page0, onload, loadFired,
                   invocations, requests, fetched, log>>
    /\ UNCHANGED scrollVars

\* line 23: the body arrives as text
ReadResolve ==
    /\ pc = "reading"
    /\ loc.response.readable
    /\ loc' = [loc EXCEPT !.htmlContent = loc.response.body]
    /\ pc' = "parse"
    /\ UNCHANGED <<variant, budget, dom, page0, onload, loadFired,
                   invocations, requests, fetched, log, promise>>
    /\ UNCHANGED scrollVars

\* lines 24-25: a detached div receives the markup
Parse ==
    /\ pc = "parse"
    /\ dom' = SetInnerHTML(CreateElement(dom, TempDiv), TempDiv, loc.htmlContent)
    /\ loc' = [loc EXCEPT !.tempDiv = TempDiv]
    /\ pc' = "lookup"
    /\ UNCHANGED <<variant, budget, page0, onload, loadFired,
                   invocations, requests, fetched, log, promise>>
    /\ UNCHANGED scrollVars

\* lines 27-29: the three lookups inside the detached div
Lookup ==
    /\ pc = "lookup"
    /\ loc' = [loc EXCEPT
                 !.titleElement = QuerySelector(dom, loc.tempDiv, TitleMarker),
                 !.dateElement = QuerySelector(dom, loc.tempDiv, DateMarker),
                 !.textElement = QuerySelector(dom, loc.tempDiv, TextMarker)]
    /\ pc' = "slice"
    /\ UNCHANGED <<variant, budget, dom, page0, onload, loadFired,
                   invocations, requests, fetched, log, promise>>
    /\ UNCHANGED scrollVars

\* line 31 with the budget chosen by the viewport: 135 below 768, else 80
SliceByViewport ==
    /\ pc = "slice"
    /\ IF loc.textElement = Null
       THEN Throw(TypeError(31))
       ELSE /\ loc' = [loc EXCEPT !.shortenedContent =
                          Sliced(TextContent(dom, loc.textElement),
                                 IF IsWide(innerWidth) THEN SliceLenScripts
                                 ELSE SliceLenMobile)]
            /\ pc' = "trim"
            /\ promise' = promise
    /\ UNCHANGED <<variant, budget, dom, page0, onload, loadFired,
                   invocations, requests, fetched, log>>
    /\ UNCHANGED scrollVars

\* line 31 failing when any of the three lookups found nothing
SliceCheckingAll ==
    /\ pc = "slice"
    /\ IF Null \in {loc.titleElement, loc.dateElement, loc.textElement}
       THEN Throw(TypeError(31))
       ELSE /\ loc' = [loc EXCEPT !.shortenedContent =
                          Sliced(TextContent(dom, loc.textElement), budget)]
            /\ pc' = "trim"
            /\ promise' = promise
    /\ UNCHANGED <<variant, budget, dom, page0, onload, loadFired,
                   invocations, requests, fetched, log>>
    /\ UNCHANGED scrollVars

\* line 31: textElement.textContent.slice(0, budget)
Slice ==
    /\ pc = "slice"
    /\ IF loc.textElement = Null
       THEN Throw(TypeError(31))
       ELSE /\ loc' = [loc EXCEPT !.shortenedContent =
                          Sliced(TextContent(dom, loc.textElement), budget)]
            /\ pc' = "trim"
            /\ promise' = promise
    /\ UNCHANGED <<variant, budget, dom, page0, onload, loadFired,
                   invocations, requests, fetched, log>>
    /\ UNCHANGED scrollVars

\* lines 32-34: one trailing space is cut
Trim ==
    /\ pc = "trim"
    /\ loc' = [loc EXCEPT !.shortenedContent = Trimmed(@)]
    /\ pc' = "ellipsis"
    /\ UNCHANGED <<variant, budget, dom, page0, onload, loadFired,
                   invocations, requests, fetched, log, promise>>
    /\ UNCHANGED scrollVars

\* line 35
AddEllipsis ==
    /\ pc = "ellipsis"
    /\ loc' = [loc EXCEPT !.shortenedContent = WithEllipsis(@)]
    /\ pc' = "create"
    /\ UNCHANGED <<variant, budget, dom, page0, onload, loadFired,
                   invocations, requests, fetched, log, promise>>
    /\ UNCHANGED scrollVars

\* lines 38-39 with the new container put into the body at once
CreateAttached ==
    /\ pc = "create"
    /\ dom' = AppendChild(ClassListAdd(CreateElement(dom, Container), Container,
                                       ContainerClass),
                          Body, Container)
    /\ loc' = [loc EXCEPT !.displayContainer = Container]
    /\ pc' = "appendTitle"
    /\ UNCHANGED <<variant, budget, page0, onload, loadFired,
                   invocations, requests, fetched, log, promise>>
    /\ UNCHANGED scrollVars

\* lines 38-39: the preview container, detached
Create ==
    /\ pc = "create"
    /\ dom' = ClassListAdd(CreateElement(dom, Container), Container,
                           ContainerClass)
    /\ loc' = [loc EXCEPT !.displayContainer = Container]
    /\ pc' = "appendTitle"
    /\ UNCHANGED <<variant, budget, page0, onload, loadFired,
                   invocations, requests, fetched, log, promise>>
    /\ UNCHANGED scrollVars

\* appendChild that skips a null child or parent instead of throwing
AppendStepLenient(parent, child, line, next) ==
    /\ dom' = IF parent = Null \/ child = Null THEN dom
              ELSE AppendChild(dom, parent, child)
    /\ pc' = next
    /\ loc' = loc
    /\ promise' = promise

\* parent.appendChild(child) at the given line, then on to next: a null
\* child or a null parent is a TypeError, nothing is changed
AppendStep(parent, child, line, next) ==
    IF parent = Null \/ child = Null
    THEN /\ Throw(TypeError(line))
         /\ dom' = dom
    ELSE /\ dom' = AppendChild(dom, parent, child)
         /\ pc' = next
         /\ loc' = loc
         /\ promise' = promise

\* line 40
AppendTitle ==
    /\ pc = "appendTitle"
    /\ AppendStep(loc.displayContainer, loc.titleElement, 40, "appendDate")
    /\ UNCHANGED <<variant, budget, page0, onload, loadFired,
                   invocations, requests, fetched, log>>
    /\ UNCHANGED scrollVars

\* line 41
AppendDate ==
    /\ pc = "appendDate"
    /\ AppendStep(loc.displayContainer, loc.dateElement, 41, "setText")
    /\ UNCHANGED <<variant, budget, page0, onload, loadFired,
                   invocations, requests, fetched, log>>
    /\ UNCHANGED scrollVars

\* line 42: textElement.textContent = shortenedContent
SetText ==
    /\ pc = "setText"
    /\ IF loc.textElement = Null
       THEN /\ Throw(TypeError(42))
            /\ dom' = dom
       ELSE /\ dom' = SetTextContent(dom, loc.textElement, loc.shortenedContent)
            /\ pc' = "appendText"
            /\ loc' = loc
            /\ promise' = promise
    /\ UNCHANGED <<variant, budget, page0, onload, loadFired,
                   invocations, requests, fetched, log>>
    /\ UNCHANGED scrollVars

\* line 43
AppendText ==
    /\ pc = "appendText"
    /\ AppendStep(loc.displayContainer, loc.textElement, 43, "findTarget")
    /\ UNCHANGED <<variant, budget, page0, onload, loadFired,
                   invocations, requests, fetched, log>>
    /\ UNCHANGED scrollVars

\* line 46: the mount point is looked up in the live page
FindTarget ==
    /\ pc = "findTarget"
    /\ loc' = [loc EXCEPT
                 !.targetContainer = QuerySelector(dom, Document, MountMarker)]
    /\ pc' = "mount"
    /\ UNCHANGED <<variant, budget, dom, page0, onload, loadFired,
                   invocations, requests, fetched, log, promise>>
    /\ UNCHANGED scrollVars

\* the child becomes the first child of parent instead of the last
PrependChild(d, parent, child) ==
    [d EXCEPT !.kids = [m \in DOMAIN d.kids |->
        IF m = parent THEN <<child>> \o Remove(d.kids[m], child)
        ELSE Remove(d.kids[m], child)]]

\* line 47 with the preview put in front of the mount point's children
MountPrepend ==
    /\ pc = "mount"
    /\ IF loc.targetContainer = Null
       THEN /\ Throw(TypeError(47))
            /\ dom' = dom
       ELSE /\ dom' = PrependChild(dom, loc.targetContainer,
                                   loc.displayContainer)
            /\ pc' = "done"
            /\ loc' = loc
            /\ promise' = "fulfilled"
    /\ UNCHANGED <<variant, budget, page0, onload, loadFired,
                   invocations, requests, fetched, log>>
    /\ UNCHANGED scrollVars

\* line 47, and the return that follows it: the promise is fulfilled
MountPreview ==
    /\ pc = "mount"
    /\ IF loc.targetContainer = Null
       THEN /\ Throw(TypeError(47))
            /\ dom' = dom
       ELSE /\ dom' = AppendChild(dom, loc.targetContainer,
                                  loc.displayContainer)
            /\ pc' = "done"
            /\ loc' = loc
            /\ promise' = "fulfilled"
    /\ UNCHANGED <<variant, budget, page0, onload, loadFired,
                   invocations, requests, fetched, log>>
    /\ UNCHANGED scrollVars

\* a catch clause that swallows the error without logging it
CatchSilent ==
    /\ pc = "catch"
    /\ pc' = "done"
    /\ promise' = "fulfilled"
    /\ UNCHANGED <<variant, budget, dom, page0, onload, loadFired,
                   invocations, requests, fetched, loc, log>>
    /\ UNCHANGED scrollVars

\* a catch clause that logs the error and throws it again
CatchRethrow ==
    /\ pc = "catch"
    /\ log' = Append(log, loc.error)
    /\ pc' = "done"
    /\ promise' = "rejected"
    /\ UNCHANGED <<variant, budget, dom, page0, onload, loadFired,
                   invocations, requests, fetched, loc>>
    /\ UNCHANGED scrollVars

\* a catch clause that logs the error and fetches again
CatchRetry ==
    /\ pc = "catch"
    /\ log' = Append(log, loc.error)
    /\ requests' = Append(requests, URL)
    /\ fetched' = "pending"
    /\ pc' = "fetching"
    /\ UNCHANGED <<variant, budget, dom, page0, onload, loadFired,
                   invocations, loc, promise>>
    /\ UNCHANGED scrollVars

\* lines 48-50: console.error, then the function returns
Catch ==
    /\ pc = "catch"
    /\ log' = Append(log, loc.error)
    /\ pc' = "done"
    /\ promise' = "fulfilled"
    /\ UNCHANGED <<variant, budget, dom, page0, onload, loadFired,
                   invocations, requests, fetched, loc>>
    /\ UNCHANGED scrollVars

Next ==
    \/ Load
    \/ FetchReject
    \/ FetchResolve
    \/ ReadReject
    \/ ReadResolve
    \/ Parse
    \/ Lookup
    \/ Slice
    \/ Trim
    \/ AddEllipsis
    \/ Create
    \/ AppendTitle
    \/ AppendDate
    \/ SetText
    \/ AppendText
    \/ FindTarget
    \/ MountPreview
    \/ Catch

Spec == Init /\ [][Next]_vars

-----------------------------------------------------------------------------
(* The truncation step on its own, lines 31-35, for any budget *)

\* the budgets of the two scripts and the small ones
TruncBudgets == (0..MaxBudget) \cup {SliceLenScripts, SliceLenMobile}

\* the run as it stands after the lookups of lines 27-29 on a document
\* that holds the three marked elements
InitTrunc ==
    /\ variant = "scripts"
    /\ budget \in TruncBudgets
    /\ page0 = LivePage(InitialPage(TRUE, 0))
    /\ onload = "announcementPreview"
    /\ loadFired = TRUE
    /\ invocations = 1
    /\ requests = <<URL>>
    /\ fetched = "resolved"
    /\ pc = "slice"
    /\ log = <<>>
    /\ promise = "pending"
    /\ innerWidth = Breakpoint
    /\ scrollSrc = ZeroSample
    /\ lastScroll = NoScroll
    /\ \E t \in TextsFor(budget) :
         LET doc == MkDoc(FullShape, t)
             d == SetInnerHTML(CreateElement(InitialPage(TRUE, 0), TempDiv),
                               TempDiv, doc)
         IN  /\ dom = d
             /\ style = [n \in Nodes(InitialPage(TRUE, 0)) |-> NoStyle]
             /\ loc = [InitLoc EXCEPT
                         !.response = [status |-> 200, body |-> doc,
                                       readable |-> TRUE],
                         !.htmlContent = doc,
                         !.tempDiv = TempDiv,
                         !.titleElement = QuerySelector(d, TempDiv, TitleMarker),
                         !.dateElement = QuerySelector(d, TempDiv, DateMarker),
                         !.textElement = QuerySelector(d, TempDiv, TextMarker)]

NextTrunc ==
    \/ Slice
    \/ Trim
    \/ AddEllipsis

SpecTrunc == InitTrunc /\ [][NextTrunc]_vars

-----------------------------------------------------------------------------
(* Scroll and resize events *)

\* events are delivered between tasks: before the load event, while
\* announcementPreview waits at one of its two awaits, or after it has ended
BetweenTasks == pc \in {"idle", "fetching", "reading", "done"}

\* the browser scrolls the page and notifies the scroll listeners
ScrollFrom(samples) ==
    /\ BetweenTasks
    /\ \E src \in samples :
         \E r \in {Dispatch(ScrollListeners(variant), StartOfEvent(style),
                            dom, innerWidth, src)} :
             /\ scrollSrc' = src
             /\ style' = r.style
             /\ lastScroll' = [handled |-> TRUE, width |-> innerWidth,
                               at |-> pc, errors |-> r.errors,
                               runs |-> r.runs, branches |-> r.branches,
                               lookups |-> r.lookups,
                               reads |-> r.reads, positions |-> r.positions]
    /\ UNCHANGED innerWidth
    /\ UNCHANGED previewVars

\* the viewport is resized; neither script listens to resize
ResizeTo(widths) ==
    /\ BetweenTasks
    /\ innerWidth' \in widths \ {innerWidth}
    /\ UNCHANGED <<scrollSrc, style, lastScroll>>
    /\ UNCHANGED previewVars

Scroll == ScrollFrom(ScrollSamples)

Resize == ResizeTo(Widths)

\* the scripts have run, on any page and any viewport
InitScroll ==
    /\ variant \in Variants
    /\ budget = SliceLen(variant)
    /\ dom \in ScrollPages
    /\ page0 = LivePage(dom)
    /\ onload = "announcementPreview"
    /\ loadFired = FALSE
    /\ invocations = 0
    /\ requests = <<>>
    /\ fetched = "none"
    /\ pc = "idle"
    /\ loc = InitLoc
    /\ log = <<>>
    /\ promise = "none"
    /\ \E w \in Widths : ScrollVarsAtLoad(w)

NextScroll ==
    \/ Scroll
    \/ Resize

\* the scroll listeners alone, before the load event
SpecScroll == InitScroll /\ [][NextScroll]_vars

-----------------------------------------------------------------------------
(* The whole page: one load of announcementPreview with scroll and resize
   events arriving before, during and after the fetch *)

\* a page with the three header elements, with or without a mount point,
\* and one without any header element
PagePages ==
    {HeaderPage(HeaderClasses, FALSE, 0), HeaderPage(HeaderClasses, TRUE, 1),
     HeaderPage({}, TRUE, 0)}

\* a text one character longer than the budget, with a space as the last
\* character kept by the slice
LongText(n) == Pad(n - 1) \o <<Space, "a">>

PageDocs(n) == {MkDoc(sh, LongText(n)) : sh \in Shapes}

PageSamples ==
    {ZeroSample,
     [pageYOffset |-> JsNum(280), docScrollTop |-> JsUndefined,
      bodyScrollTop |-> JsNum(0)]}

PageWidths == {767, 768}

FetchPage == FetchResolveFrom({200}, PageDocs(budget))

ScrollPage == ScrollFrom(PageSamples)

ResizePage == ResizeTo(PageWidths)

InitPage ==
    /\ variant \in Variants
    /\ budget = SliceLen(variant)
    /\ dom \in PagePages
    /\ page0 = LivePage(dom)
    /\ onload = "announcementPreview"
    /\ loadFired = FALSE
    /\ invocations = 0
    /\ requests = <<>>
    /\ fetched = "none"
    /\ pc = "idle"
    /\ loc = InitLoc
    /\ log = <<>>
    /\ promise = "none"
    /\ ScrollVarsAtLoad(Breakpoint)

NextPage ==
    \/ Load
    \/ FetchReject
    \/ FetchPage
    \/ ReadReject
    \/ ReadResolve
    \/ Parse
    \/ Lookup
    \/ Slice
    \/ Trim
    \/ AddEllipsis
    \/ Create
    \/ AppendTitle
    \/ AppendDate
    \/ SetText
    \/ AppendText
    \/ FindTarget
    \/ MountPreview
    \/ Catch
    \/ ScrollPage
    \/ ResizePage

SpecPage == InitPage /\ [][NextPage]_vars

\* the statements between two awaits and after the last one: once the
\* function is resumed it runs on to its next await or to its end
RunToCompletion ==
    \/ Parse
    \/ Lookup
    \/ Slice
    \/ Trim
    \/ AddEllipsis
    \/ Create
    \/ AppendTitle
    \/ AppendDate
    \/ SetText
    \/ AppendText
    \/ FindTarget
    \/ MountPreview
    \/ Catch

\* the whole page with the scheduling of the event loop: a resumed function
\* keeps running; nothing makes the network answer or the user scroll
SpecPageLive == SpecPage /\ WF_vars(RunToCompletion)

-----------------------------------------------------------------------------
(* Claims about the truncation step, checked under SpecTrunc *)

\* the text of the full-text node, which line 31 reads
FullText == TextContent(dom, loc.textElement)

\* line 35 has run: shortenedContent is the snippet
SnippetReady == pc = "create"

Snippet == loc.shortenedContent

\* C1: for every text and every budget N (80, 135 and the small ones) the
\* snippet is at most N+3 characters long and its last three characters
\* are "..."
C1_SnippetBounded ==
    SnippetReady =>
        /\ Len(Snippet) <= budget + 3
        /\ Len(Snippet) >= 3
        /\ \A i \in 0..2 : Snippet[Len(Snippet) - i] = "."

\* C1 witness: a text longer than the budget of the mobile script whose
\* snippet has the full N+3 characters
C1_Witness ==
    /\ SnippetReady
    /\ budget = SliceLenMobile
    /\ Len(FullText) > budget
    /\ Len(Snippet) = budget + 3

\* C2 as stated: the character at index N-1 of the text decides; when it is a
\* space the snippet is the N-character prefix without it, then "...", and
\* otherwise (or when the text has no index N-1) nothing is dropped
C2_CharAtBudgetDecides ==
    SnippetReady =>
        LET prefix == SubSeq(FullText, 1, Min(budget, Len(FullText)))
        IN  IF budget >= 1 /\ budget <= Len(FullText)
               /\ FullText[budget] = Space
            THEN Snippet = SubSeq(FullText, 1, budget - 1) \o <<".", ".", ".">>
            ELSE Snippet = prefix \o <<".", ".", ".">>

\* C2 amended: the last character of the prefix of at most N characters
\* decides (index min(N, length) - 1); when it is a space the snippet is the
\* prefix without that one character, then "...", and otherwise the whole
\* prefix, then "..."
C2_LastOfPrefixDecides ==
    SnippetReady =>
        LET cut == Min(budget, Len(FullText))
            prefix == SubSeq(FullText, 1, cut)
        IN  IF cut >= 1 /\ FullText[cut] = Space
            THEN Snippet = SubSeq(FullText, 1, cut - 1) \o <<".", ".", ".">>
            ELSE Snippet = prefix \o <<".", ".", ".">>

\* C2 witness: a text shorter than the budget that ends in a space, which the
\* snippet has lost
C2_Witness ==
    /\ SnippetReady
    /\ Len(FullText) >= 2
    /\ Len(FullText) < budget
    /\ FullText[Len(FullText)] = Space
    /\ Len(Snippet) = Len(FullText) + 2

\* C3: "Hello world" cut at 5 gives "Hello...", and "Hello " cut at 6 gives
\* "Hello..."
C3_WorkedExamples ==
    SnippetReady =>
        /\ (FullText = HelloWorld /\ budget = 5) =>
              Snippet = <<"H", "e", "l", "l", "o", ".", ".", ".">>
        /\ (FullText = HelloSpace /\ budget = 6) =>
              Snippet = <<"H", "e", "l", "l", "o", ".", ".", ".">>

\* C3 witness: the second worked example has been computed
C3_Witness ==
    /\ SnippetReady
    /\ FullText = HelloSpace
    /\ budget = 6
    /\ Len(Snippet) = 8

\* the prefix of the text that line 31 keeps
Prefix == SubSeq(FullText, 1, Min(budget, Len(FullText)))

\* the snippet without its final "..."
SnippetBody == SubSeq(Snippet, 1, Len(Snippet) - 3)

\* C23: the trim removes at most one character and only a space: a prefix
\* ending in two spaces loses exactly one, so the snippet ends in a space
\* and "...", and a prefix ending in a tab or a newline loses nothing
C23_TrimsOneSpaceOnly ==
    SnippetReady =>
        LET n == Len(Prefix)
            m == Len(SnippetBody)
        IN  /\ m \in {n - 1, n} \cap Nat
            /\ SnippetBody = SubSeq(Prefix, 1, m)
            /\ m < n => Prefix[n] = Space
            /\ (n >= 2 /\ Prefix[n] = Space /\ Prefix[n - 1] = Space) =>
                  /\ m = n - 1
                  /\ Snippet[m] = Space
                  /\ Snippet[m + 1] = "."
            /\ (n >= 1 /\ Prefix[n] \in {"\t", "\n"}) => m = n

\* C23 witness: a text cut at the budget of scripts.js whose prefix ends in
\* two spaces, of which the snippet keeps one
C23_Witness ==
    /\ SnippetReady
    /\ budget = SliceLenScripts
    /\ Len(FullText) > budget
    /\ Prefix[budget] = Space
    /\ Prefix[budget - 1] = Space
    /\ Len(Snippet) = budget + 2
    /\ Snippet[budget - 1] = Space

\* C25: a text shorter than the budget is kept whole and followed by "...",
\* less one space at its end if it has one; the empty text gives "..."
C25_ShortTextKept ==
    (SnippetReady /\ Len(FullText) < budget) =>
        LET n == Len(FullText)
        IN  /\ Snippet = (IF n >= 1 /\ FullText[n] = Space
                          THEN SubSeq(FullText, 1, n - 1) ELSE FullText)
                         \o <<".", ".", ".">>
            /\ n = 0 => Snippet = <<".", ".", ".">>

\* C25 witness: the empty text under the budget of the mobile-aware script
C25_Witness ==
    /\ SnippetReady
    /\ budget = SliceLenMobile
    /\ FullText = <<>>
    /\ Snippet = <<".", ".", ".">>

-----------------------------------------------------------------------------
(* Claims about the whole run, checked under Spec *)

Done == pc = "done"

\* the preview container is part of the live page
Mounted == Container \in LiveNodes(dom)

PageUnchanged == LivePage(dom) = page0

HasMount == Mount \in DOMAIN page0.kids

HasMarker(doc, m) == \E i \in DOMAIN doc : m \in doc[i].cls

IsOk(status) == status >= 200 /\ status <= 299

\* C4: when fetch rejects, the mount point has the children it had at load
\* and exactly one entry is logged
C4_FetchRejectLeavesMount ==
    (Done /\ fetched = "rejected") =>
        /\ HasMount => /\ Mount \in Nodes(dom)
                       /\ dom.kids[Mount] = page0.kids[Mount]
        /\ Len(log) = 1

\* C4 witness: a run whose fetch was rejected has ended, on a page whose
\* mount point has children
C4_Witness ==
    /\ Done
    /\ fetched = "rejected"
    /\ HasMount
    /\ Len(page0.kids[Mount]) >= 1
    /\ log = <<NetworkError>>

\* C5: a response with a non-2xx status is a fetch failure: the run ends with
\* an error logged and no preview mounted, whatever the body holds
C5_NonOkStatusIsFailure ==
    (Done /\ fetched = "resolved" /\ ~IsOk(loc.response.status)) =>
        /\ Len(log) = 1
        /\ ~Mounted

\* C6: a document without the title marker, with the date and text markers,
\* is never mounted: the live page stays as it was at load, the run ends
\* with the same single log entry every time, and the promise is not rejected
C6_MissingTitleNeverMounts ==
    (/\ loc.response.readable
     /\ ~HasMarker(loc.response.body, TitleMarker)
     /\ HasMarker(loc.response.body, DateMarker)
     /\ HasMarker(loc.response.body, TextMarker)) =>
        /\ ~Mounted
        /\ PageUnchanged
        /\ promise # "rejected"
        /\ Done => /\ log = <<TypeError(40)>>
                   /\ promise = "fulfilled"

\* C6 witness: the run over such a document has ended on a page that has a
\* mount point
C6_Witness ==
    /\ Done
    /\ HasMount
    /\ loc.response.readable
    /\ ~HasMarker(loc.htmlContent, TitleMarker)
    /\ HasMarker(loc.htmlContent, DateMarker)
    /\ HasMarker(loc.htmlContent, TextMarker)
    /\ loc.error = TypeError(40)

\* C7: a completed run ends either with the preview mounted and nothing
\* logged, or with exactly one entry logged and the live page unchanged;
\* never with both a mount and a log entry, never with neither
C7_MountedOrLogged ==
    Done =>
        /\ \/ Mounted /\ log = <<>>
           \/ Len(log) = 1 /\ PageUnchanged
        /\ ~(Mounted /\ log # <<>>)
        /\ Mounted \/ log # <<>>

\* C7 witness: a run has ended with the preview mounted
C7_Witness ==
    /\ Done
    /\ Mounted
    /\ log = <<>>
    /\ IsOk(loc.response.status)

\* C8: no failure leaves announcementPreview: the promise is never rejected,
\* and a run that failed ends with the promise fulfilled, the error as the
\* one log entry and the live page unchanged
C8_FailuresContained ==
    /\ promise # "rejected"
    /\ (Done /\ loc.error # NoError) =>
          /\ promise = "fulfilled"
          /\ log = <<loc.error>>
          /\ PageUnchanged

\* C8 witness: a run on a page without mount point has failed at line 47
C8_Witness ==
    /\ Done
    /\ ~HasMount
    /\ loc.error = TypeError(47)
    /\ promise = "fulfilled"

\* C9: per page load announcementPreview is called once and issues one
\* request, to the fixed URL, with no second request after a failure, in
\* both scripts
C9_OneRequestPerLoad ==
    /\ invocations <= 1
    /\ Len(requests) <= 1
    /\ loadFired => /\ invocations = 1
                    /\ requests = <<URL>>

\* C9 witness: a failed run of the mobile-aware script has ended
C9_Witness ==
    /\ Done
    /\ variant = "mobile"
    /\ Len(log) = 1
    /\ requests = <<URL>>

\* C10: a successful run appends the preview container as the last child of
\* the mount point, keeps the mount point's earlier children in order, and
\* adds, removes or changes no other node of the live page; the mount point
\* never holds more than one preview container
C10_OneNodeAppended ==
    /\ (Done /\ log = <<>>) =>
          LET t == loc.targetContainer
              old == DOMAIN page0.kids
          IN  /\ t \in old
              /\ dom.kids[t] = Append(page0.kids[t], Container)
              /\ \A n \in old \ {t} : dom.kids[n] = page0.kids[n]
              /\ \A n \in old : /\ dom.cls[n] = page0.cls[n]
                                /\ dom.txt[n] = page0.txt[n]
              /\ LiveNodes(dom) \ old =
                    {Container} \cup Range(Descendants(dom, Container))
    /\ \A n \in LiveNodes(dom) :
          MountMarker \in dom.cls[n] =>
              Cardinality({i \in DOMAIN dom.kids[n] :
                             dom.kids[n][i] = Container}) <= 1

\* C10 witness: a successful run on a page whose mount point had children
C10_Witness ==
    /\ Done
    /\ log = <<>>
    /\ HasMount
    /\ Len(page0.kids[Mount]) >= 2
    /\ Len(dom.kids[Mount]) = Len(page0.kids[Mount]) + 1

-----------------------------------------------------------------------------
(* Claims about the scroll listeners, checked under SpecScroll *)

\* a scroll notification has been handled
Scrolled == lastScroll.handled

\* the element is part of the page the script was loaded into
OnPage(n) == n \in DOMAIN page0.kids

\* the latest notification came at a width of 768 or more
WideEvent == Scrolled /\ lastScroll.width >= 768

\* the latest notification came at a width below 768
NarrowEvent == Scrolled /\ lastScroll.width < 768

\* the offset the listeners of the latest notification worked with
UsedOffset == lastScroll.positions[1]

\* C11: at a width of 768 or more a scroll event leaves .topimg with opacity
\* 1 - offset/200, whatever came before and without clamping: 1 at offset 0,
\* 0 at offset 200, -1 at offset 400
C11_OpacityFormula ==
    (WideEvent /\ OnPage(TopImg)) =>
        LET o == UsedOffset
            op == style[TopImg].opacity
        IN  /\ Len(op) = 2
            /\ op[2] > 0
            /\ op[1] * 200 = (200 - o) * op[2]
            /\ o = 0 => op = <<1, 1>>
            /\ o = 200 => op = <<0, 1>>
            /\ o = 400 => op = <<-1, 1>>

\* C11 witness: scripts.js has handled a scroll to offset 400 in a wide
\* viewport and the opacity is -1
C11_Witness ==
    /\ WideEvent
    /\ variant = "scripts"
    /\ OnPage(TopImg)
    /\ UsedOffset = 400
    /\ style[TopImg].opacity = <<-1, 1>>

\* the latest notification ran the narrow branch of the mobile-aware script
\* with both of its elements on the page
NarrowMobileEvent ==
    /\ NarrowEvent
    /\ variant = "mobile"
    /\ OnPage(HeaderImage)
    /\ OnPage(HeaderContent)

\* the number of the height written to .mobilecont-content
WrittenHeight == style[HeaderContent].height[1]

C12_HeightNow ==
    NarrowMobileEvent =>
        LET o == UsedOffset
            hv == style[HeaderContent].height
        IN  /\ Len(hv) = 2
            /\ hv[2] = "px"
            /\ hv[1][2] > 0
            /\ IF 400 - o >= 120
               THEN 2 * hv[1][1] = (400 - o) * hv[1][2]
               ELSE hv[1] = <<60, 1>>
            /\ 60 * hv[1][2] <= hv[1][1]
            /\ hv[1][1] <= 200 * hv[1][2]
            /\ o = 0 => hv[1] = <<200, 1>>
            /\ o = 280 => hv[1] = <<60, 1>>
            /\ o = 1000 => hv[1] = <<60, 1>>

C12_HeightStep ==
    (NarrowMobileEvent /\ NarrowMobileEvent' /\ UsedOffset' >= UsedOffset) =>
        WrittenHeight'[1] * WrittenHeight[2] <= WrittenHeight[1] * WrittenHeight'[2]

\* C12: below 768 the mobile-aware script leaves .mobilecont-content with
\* height max(60, 200 - offset*0.5) px: 200 at offset 0, 60 at offsets 280
\* and 1000, always within [60, 200], and from one narrow event to the next
\* the height does not grow when the offset does not shrink
C12_HeightFormula == [] C12_HeightNow /\ [][C12_HeightStep]_vars

\* C12 witness: the floor has been reached at offset 1000
C12_Witness ==
    /\ NarrowMobileEvent
    /\ UsedOffset = 1000
    /\ style[HeaderContent].height = <<<<60, 1>>, "px">>

\* C13: every scroll notification runs the transform handler exactly once,
\* in scripts.js and in the mobile-aware script
C13_OneRunPerScroll ==
    Scrolled => lastScroll.runs = 1

\* C15 as stated: whenever one of the three elements is missing from the
\* page, a scroll event ends with an unhandled error, at any width and in
\* both scripts
C15_MissingElementFails ==
    (Scrolled /\ \E n \in {TopImg, HeaderImage, HeaderContent} : ~OnPage(n)) =>
        lastScroll.errors # <<>>

\* an element that the branch taken by the latest notification writes to is
\* missing: .topimg at 768 or more, .mobilecont-image or .mobilecont-content
\* below 768 in the mobile-aware script
WrittenElementMissing ==
    IF lastScroll.width >= 768 THEN ~OnPage(TopImg)
    ELSE variant = "mobile" /\ (~OnPage(HeaderImage) \/ ~OnPage(HeaderContent))

\* C15 amended: a scroll event ends with an unhandled TypeError, one from
\* each listener, exactly when an element that the branch it takes writes to
\* is missing; a missing element of the other branch goes unnoticed, and
\* scripts.js never fails below 768
C15_FailsWhenWrittenElementMissing ==
    Scrolled =>
        /\ lastScroll.errors # <<>> <=> WrittenElementMissing
        /\ WrittenElementMissing => Len(lastScroll.errors) = lastScroll.runs
        /\ \A i \in DOMAIN lastScroll.errors :
              lastScroll.errors[i].name = "TypeError"

\* C15 witness: below 768 the mobile-aware script failed at line 15, with
\* .mobilecont-image on the page and .mobilecont-content missing
C15_Witness ==
    /\ NarrowEvent
    /\ variant = "mobile"
    /\ OnPage(HeaderImage)
    /\ ~OnPage(HeaderContent)
    /\ lastScroll.errors = <<TypeError(15)>>

\* C18: the offset used is the first non-zero value among pageYOffset,
\* documentElement.scrollTop and body.scrollTop, in that order, and 0 when
\* all are zero or undefined; a source is read only when every earlier one
\* is zero or undefined
C18_FirstNonZeroSource ==
    (Scrolled /\ lastScroll.positions # <<>>) =>
        LET vals == <<scrollSrc.pageYOffset, scrollSrc.docScrollTop,
                      scrollSrc.bodyScrollTop>>
            names == <<"pageYOffset", "docScrollTop", "bodyScrollTop">>
            nonZero(i) == vals[i][1] = "number" /\ vals[i][2] # 0
            first == {i \in 1..3 : nonZero(i) /\ \A j \in 1..(i - 1) : ~nonZero(j)}
            last == IF first = {} THEN 3 ELSE CHOOSE i \in first : TRUE
            expected == IF first = {} THEN 0 ELSE vals[last][2]
            n == Len(lastScroll.positions)
        IN  /\ \A k \in 1..n : lastScroll.positions[k] = expected
            /\ Len(lastScroll.reads) = n * last
            /\ \A k \in 1..(n * last) :
                  lastScroll.reads[k] = names[((k - 1) % last) + 1]

\* C18 witness: pageYOffset is 0, documentElement.scrollTop undefined, and
\* the offset 50 came from body.scrollTop
C18_Witness ==
    /\ Scrolled
    /\ scrollSrc.pageYOffset = JsNum(0)
    /\ scrollSrc.docScrollTop = JsUndefined
    /\ lastScroll.positions # <<>>
    /\ UsedOffset = 50

\* C19: every scroll event takes the wide branch when the width at that
\* moment is 768 or more and the narrow branch otherwise, whatever the width
\* was before
C19_ModeFromCurrentWidth ==
    Scrolled =>
        /\ Len(lastScroll.branches) = lastScroll.runs
        /\ \A i \in DOMAIN lastScroll.branches :
              lastScroll.branches[i] =
                 IF lastScroll.width >= 768 THEN "wide" ELSE "narrow"
        /\ (lastScroll.width >= 768 /\ OnPage(TopImg)) =>
              style[TopImg].opacity # <<>>
        /\ (lastScroll.width < 768 /\ variant = "mobile" /\ OnPage(HeaderImage)) =>
              style[HeaderImage].transform # <<>>

\* C19 witness: after a narrow event the viewport was resized to exactly 768
\* and the next event took the wide branch
C19_Witness ==
    /\ Scrolled
    /\ variant = "mobile"
    /\ OnPage(HeaderImage)
    /\ OnPage(TopImg)
    /\ style[HeaderImage].transform # <<>>
    /\ lastScroll.width = 768
    /\ lastScroll.branches = <<"wide">>
    /\ style[TopImg].opacity # <<>>

C20_NarrowNow ==
    (NarrowEvent /\ variant = "scripts") =>
        /\ lastScroll.lookups = <<>>
        /\ lastScroll.reads = <<>>
        /\ lastScroll.errors = <<>>

C20_NarrowStep ==
    (variant = "scripts" /\ innerWidth < 768 /\ innerWidth' = innerWidth) =>
        style' = style

\* C20: below 768 a scroll event in scripts.js looks up no element, changes
\* no style and cannot fail, also when .topimg is missing
C20_NarrowScriptsDoesNothing == [] C20_NarrowNow /\ [][C20_NarrowStep]_vars

\* C20 witness: scripts.js handled a scroll to offset 400 below 768 on a page
\* without .topimg
C20_Witness ==
    /\ NarrowEvent
    /\ variant = "scripts"
    /\ ~OnPage(TopImg)
    /\ scrollSrc.pageYOffset = JsNum(400)
    /\ lastScroll.runs = 2
    /\ lastScroll.errors = <<>>

\* the transform the narrow branch writes for a scale of exactly 1
ScaleOne == <<"scale(", <<1, 1>>, ")">>

\* C21: below 768 the mobile-aware script writes scale(1) to
\* .mobilecont-image at every offset; no other transform is ever written,
\* so the 0.8 floor is never reached
C21_ScaleAlwaysOne ==
    OnPage(HeaderImage) =>
        /\ style[HeaderImage].transform \in {<<>>, ScaleOne}
        /\ (NarrowEvent /\ variant = "mobile") =>
              style[HeaderImage].transform = ScaleOne

\* C21 witness: at offset 1000 the transform written is scale(1)
C21_Witness ==
    /\ NarrowEvent
    /\ variant = "mobile"
    /\ OnPage(HeaderImage)
    /\ UsedOffset = 1000
    /\ style[HeaderImage].transform = ScaleOne

\* the value of a style property of an element, unset when the element is
\* not on the page
StyleOf(st, n, prop) == IF n \in DOMAIN st THEN st[n][prop] ELSE <<>>

\* C27: in the mobile-aware script an event at 768 or more leaves the
\* transform of .mobilecont-image and the height of .mobilecont-content as
\* they were, an event below 768 leaves the opacity of .topimg as it was,
\* and a resize changes no style
C27_OwnBranchOnlyStep ==
    /\ (variant = "mobile" /\ innerWidth' = innerWidth /\ innerWidth >= 768) =>
          /\ StyleOf(style', HeaderImage, "transform") =
                StyleOf(style, HeaderImage, "transform")
          /\ StyleOf(style', HeaderContent, "height") =
                StyleOf(style, HeaderContent, "height")
    /\ (variant = "mobile" /\ innerWidth' = innerWidth /\ innerWidth < 768) =>
          StyleOf(style', TopImg, "opacity") = StyleOf(style, TopImg, "opacity")
    /\ innerWidth' # innerWidth => style' = style

C27_OwnBranchOnly == [][C27_OwnBranchOnlyStep]_vars

\* C27 witness: after a narrow event at offset 1000, a resize and a wide
\* event at offset 0, the height is still the 60px of the narrow event
C27_Witness ==
    /\ WideEvent
    /\ variant = "mobile"
    /\ OnPage(TopImg)
    /\ OnPage(HeaderImage)
    /\ OnPage(HeaderContent)
    /\ UsedOffset = 0
    /\ style[TopImg].opacity = <<1, 1>>
    /\ style[HeaderImage].transform = ScaleOne
    /\ style[HeaderContent].height = <<<<60, 1>>, "px">>

\* the styles left by the listeners ls handling one scroll event from the
\* styles st
StylesAfter(ls, st, w, src) ==
    Dispatch(ls, StartOfEvent(st), dom, w, src).style

\* C28: a step that handles a scroll event leaves the styles that the first
\* registered listener alone would leave, and handling the same event once
\* more changes nothing
C28_IdempotentStep ==
    innerWidth' = innerWidth =>
        /\ style' = StylesAfter(<<Head(ScrollListeners(variant))>>, style,
                                innerWidth, scrollSrc')
        /\ StylesAfter(ScrollListeners(variant), style', innerWidth, scrollSrc')
              = style'

C28_Idempotent == [][C28_IdempotentStep]_vars

\* C28 witness: the two listeners of scripts.js have handled a scroll to
\* offset 400 and the opacity is the -1 of a single write
C28_Witness ==
    /\ WideEvent
    /\ variant = "scripts"
    /\ lastScroll.runs = 2
    /\ lastScroll.positions = <<400, 400>>
    /\ OnPage(TopImg)
    /\ style[TopImg].opacity = <<-1, 1>>

\* C29 as stated: a scroll event in which a listener fails for a missing
\* element leaves every style as it was
C29_FailureWritesNothingStep ==
    (innerWidth' = innerWidth /\ lastScroll'.errors # <<>>) => style' = style

C29_FailureWritesNothing == [][C29_FailureWritesNothingStep]_vars

\* the event is handled below 768 by the mobile-aware script on a page that
\* has .mobilecont-image and lacks .mobilecont-content
ImageWithoutContent ==
    /\ variant = "mobile"
    /\ innerWidth < 768
    /\ OnPage(HeaderImage)
    /\ ~OnPage(HeaderContent)

\* C29 amended: a failing scroll event leaves every style as it was, except
\* below 768 in the mobile-aware script with .mobilecont-image present and
\* .mobilecont-content missing: there the transform of .mobilecont-image is
\* set to scale(1) before the failure at line 15, and nothing else changes
C29_FailureWritesAtMostTransformStep ==
    (innerWidth' = innerWidth /\ lastScroll'.errors # <<>>) =>
        IF ImageWithoutContent
        THEN /\ lastScroll'.errors = <<TypeError(15)>>
             /\ style' = [style EXCEPT ![HeaderImage].transform = ScaleOne]
        ELSE style' = style

C29_FailureWritesAtMostTransform ==
    [][C29_FailureWritesAtMostTransformStep]_vars

\* C29 witness: the event failed at line 15 and the transform is set
C29_Witness ==
    /\ NarrowEvent
    /\ variant = "mobile"
    /\ OnPage(HeaderImage)
    /\ ~OnPage(HeaderContent)
    /\ lastScroll.errors = <<TypeError(15)>>
    /\ style[HeaderImage].transform = ScaleOne

-----------------------------------------------------------------------------
(* Claims about the assembled preview, checked under Spec *)

\* the response body was read and carries all three markers
AllMarkers ==
    /\ loc.response.readable
    /\ \A m \in {TitleMarker, DateMarker, TextMarker} :
          HasMarker(loc.response.body, m)

\* the text of the first element of the body that carries the text marker
FetchedText ==
    LET doc == loc.response.body
        i == CHOOSE i \in DOMAIN doc :
                /\ TextMarker \in doc[i].cls
                /\ \A j \in 1..(i - 1) : TextMarker \notin doc[j].cls
    IN  doc[i].txt

\* the children of the container are a title node, a date node and a text
\* node holding the snippet of the fetched text, in this order
ThreeChildren ==
    LET kids == dom.kids[Container]
    IN  /\ Len(kids) = 3
        /\ kids = <<loc.titleElement, loc.dateElement, loc.textElement>>
        /\ TitleMarker \in dom.cls[kids[1]]
        /\ DateMarker \in dom.cls[kids[2]]
        /\ TextMarker \in dom.cls[kids[3]]
        /\ TextContent(dom, kids[3]) =
              WithEllipsis(Trimmed(Sliced(FetchedText, budget)))

\* C16 as stated: whenever the fetched document carries all three markers,
\* the mounted container has exactly three children: title, date, text
C16_ThreeChildren ==
    (Done /\ Mounted /\ AllMarkers) => ThreeChildren

\* C16 amended: when the three markers are found on three different
\* elements, the mounted container has exactly three children, in the order
\* title node, date node, text node, and the text node holds the snippet
C16_ThreeChildrenOfDistinctElements ==
    (/\ Done
     /\ Mounted
     /\ AllMarkers
     /\ Cardinality({loc.titleElement, loc.dateElement, loc.textElement}) = 3)
        => ThreeChildren

\* C16 witness: a document with the text first and the title last, and a
\* text longer than the budget, was mounted as title, date, text
C16_Witness ==
    /\ Done
    /\ Mounted
    /\ AllMarkers
    /\ TextMarker \in loc.response.body[1].cls
    /\ Len(FetchedText) > budget
    /\ dom.kids[Container] = <<Elem(3), Elem(2), Elem(1)>>
    /\ Len(TextContent(dom, Elem(1))) = budget + 3

\* the body was read and at least one of the three markers is missing
SomeMarkerMissing ==
    /\ loc.response.readable
    /\ \E m \in {TitleMarker, DateMarker, TextMarker} :
          ~HasMarker(loc.response.body, m)

\* every element of the fetched document is still a child of the temporary
\* div, in markup order
NothingMoved ==
    dom.kids[TempDiv] = [i \in DOMAIN loc.response.body |-> Elem(i)]

\* C17 as stated: with any one marker missing the run fails at line 31,
\* before the container exists and before any node is moved
C17_FailsAtTextRead ==
    (Done /\ SomeMarkerMissing) =>
        /\ loc.error = TypeError(31)
        /\ Container \notin Nodes(dom)
        /\ NothingMoved

\* C17 amended: a missing text marker fails at line 31, before the container
\* exists and before any node is moved; with the text present a missing
\* title fails at line 40, the container created and no node moved; a
\* missing date alone fails at line 41, the title already moved into the
\* detached container; in each case the live page is unchanged and the error
\* is logged
C17_FailurePoints ==
    (Done /\ SomeMarkerMissing) =>
        LET has(m) == HasMarker(loc.response.body, m)
        IN  /\ ~has(TextMarker) =>
                  /\ loc.error = TypeError(31)
                  /\ Container \notin Nodes(dom)
                  /\ NothingMoved
            /\ (has(TextMarker) /\ ~has(TitleMarker)) =>
                  /\ loc.error = TypeError(40)
                  /\ Container \in Nodes(dom)
                  /\ dom.kids[Container] = <<>>
                  /\ NothingMoved
            /\ (has(TextMarker) /\ has(TitleMarker) /\ ~has(DateMarker)) =>
                  /\ loc.error = TypeError(41)
                  /\ dom.kids[Container] = <<loc.titleElement>>
                  /\ loc.titleElement \notin Range(dom.kids[TempDiv])
            /\ log = <<loc.error>>
            /\ ~Mounted
            /\ PageUnchanged

\* C17 witness: a document without the date marker failed at line 41 with
\* the title node already in the container
C17_Witness ==
    /\ Done
    /\ SomeMarkerMissing
    /\ HasMarker(loc.response.body, TitleMarker)
    /\ HasMarker(loc.response.body, TextMarker)
    /\ loc.error = TypeError(41)
    /\ dom.kids[Container] = <<Elem(1)>>
    /\ dom.kids[TempDiv] = <<Elem(2)>>

-----------------------------------------------------------------------------
(* Claims about the two components together, checked under SpecPage *)

\* what the run must log, told from the response and the page at load alone
ExpectedLog ==
    LET has(m) == HasMarker(loc.response.body, m)
    IN  IF fetched = "rejected" THEN <<NetworkError>>
        ELSE IF ~loc.response.readable THEN <<BodyReadError>>
        ELSE IF ~has(TextMarker) THEN <<TypeError(31)>>
        ELSE IF ~has(TitleMarker) THEN <<TypeError(40)>>
        ELSE IF ~has(DateMarker) THEN <<TypeError(41)>>
        ELSE IF ~HasMount THEN <<TypeError(47)>>
        ELSE <<>>

\* the outcome of a completed run is the one its response and the page at
\* load determine: the failure logged, or the preview mounted after the old
\* children with the snippet cut at the budget of the script
C14_Outcome ==
    Done =>
        /\ log = ExpectedLog
        /\ log # <<>> => PageUnchanged
        /\ log = <<>> =>
              /\ dom.kids[Mount] = Append(page0.kids[Mount], Container)
              /\ TextContent(dom, loc.textElement) =
                    WithEllipsis(Trimmed(Sliced(FetchedText, SliceLen(variant))))
              /\ Range(dom.kids[Container]) =
                    {loc.titleElement, loc.dateElement, loc.textElement}

\* a step that handles a scroll event leaves the styles and errors that the
\* listeners produce on the page as it was at load, with no fetch at all,
\* and touches nothing of the preview; a step of the preview touches nothing
\* of the scroll state
C14_Step ==
    /\ (lastScroll' # lastScroll \/ scrollSrc' # scrollSrc \/ style' # style) =>
          LET alone == Dispatch(ScrollListeners(variant), StartOfEvent(style),
                                page0, innerWidth, scrollSrc')
          IN  /\ style' = alone.style
              /\ lastScroll'.errors = alone.errors
              /\ previewVars' = previewVars
    /\ previewVars' # previewVars => scrollVars' = scrollVars

\* C14: scroll events handled at any point of the load, the await points
\* included, give the styles they give without the fetch, and the outcome of
\* the preview is the same whatever scroll and resize events occur around it
C14_NoInterference == [] C14_Outcome /\ [][C14_Step]_vars

\* C14 witness: the preview was mounted although a scroll event was handled
\* during the fetch, at a width below 768 reached by a resize
C14_Witness ==
    /\ Done
    /\ Mounted
    /\ lastScroll.handled
    /\ lastScroll.at \in {"fetching", "reading"}
    /\ lastScroll.width = 767
    /\ scrollSrc.pageYOffset = JsNum(280)
    /\ OnPage(TopImg)
    /\ style[TopImg].opacity = <<>>

-----------------------------------------------------------------------------
(* Claims about node ownership and the live page, checked under Spec *)

\* the elements made from the fetched markup
FetchedElems ==
    IF TempDiv \in Nodes(dom)
    THEN {Elem(i) : i \in DOMAIN loc.htmlContent} ELSE {}

\* C22: the title, date and text nodes are moved, never copied: after a
\* successful run none of them is left in the parsed fragment and the nodes
\* in the live page are the nodes the lookups found; at every point of the
\* run each fetched element has exactly one parent and holds one place in it,
\* and no further node exists
C22_MovedNotCopied ==
    /\ \A n \in FetchedElems :
          /\ Cardinality(Parents(dom, n)) = 1
          /\ \A m \in Parents(dom, n) :
                Cardinality({i \in DOMAIN dom.kids[m] : dom.kids[m][i] = n}) = 1
    /\ Nodes(dom) \subseteq
          DOMAIN page0.kids \cup {TempDiv, Container} \cup FetchedElems
    /\ (Done /\ log = <<>>) =>
          LET found == {loc.titleElement, loc.dateElement, loc.textElement}
          IN  /\ found \subseteq FetchedElems
              /\ found \cap Range(dom.kids[TempDiv]) = {}
              /\ Range(dom.kids[Container]) = found
              /\ found \subseteq LiveNodes(dom)

\* C22 witness: a successful run over a document of three elements has left
\* the parsed fragment empty and the three elements in the live page
C22_Witness ==
    /\ Done
    /\ log = <<>>
    /\ Len(loc.htmlContent) = 3
    /\ dom.kids[TempDiv] = <<>>
    /\ {Elem(1), Elem(2), Elem(3)} \subseteq LiveNodes(dom)
    /\ Parents(dom, Elem(1)) = {Container}

\* C26: before the mount of line 47 has succeeded the live page is the page
\* at load: while the run is suspended at an await, at every statement up
\* to the mount, and after every failure; the nodes changed before the
\* mount are detached
C26_LivePageUntouchedBeforeMount ==
    /\ (pc # "done" \/ log # <<>>) => PageUnchanged
    /\ pc \in {"fetching", "reading", "catch"} => PageUnchanged
    /\ pc # "done" =>
          {TempDiv, Container} \cap LiveNodes(dom) = {}
    /\ PageUnchanged \/ (Done /\ log = <<>> /\ Mounted)

\* C26 witness: right before the mount the container holds its three
\* children, detached, and the live page is as at load
C26_Witness ==
    /\ pc = "mount"
    /\ HasMount
    /\ Container \in Nodes(dom)
    /\ Len(dom.kids[Container]) = 3
    /\ Container \notin LiveNodes(dom)
    /\ PageUnchanged

-----------------------------------------------------------------------------
(* The claim about suspension, checked under SpecPageLive *)

\* the function has been resumed for the last time: the fetch was rejected,
\* or the body read has settled
Settled == pc \notin {"idle", "fetching", "reading"}

C24_Suspended ==
    /\ pc = "fetching" =>
          /\ fetched = "pending"
          /\ promise = "pending"
          /\ log = <<>>
          /\ PageUnchanged
    /\ Done => (Mounted \/ log # <<>>)

C24_LeavesFetchOnlySettledStep ==
    (pc = "fetching" /\ pc' # "fetching") => fetched' \in {"rejected", "resolved"}

\* C24: while the fetch is pending the run stays suspended, with nothing
\* logged and the live page as at load, and only the settling of the fetch
\* ends the suspension: there is no timeout; once the fetch and the body
\* read have settled the run reaches its end, mounted or logged
C24_NoTimeout ==
    /\ [] C24_Suspended
    /\ [][C24_LeavesFetchOnlySettledStep]_vars
    /\ (Settled ~> (Done /\ (Mounted \/ log # <<>>)))

\* C24 witness: the run is still suspended at the fetch after a resize and
\* a scroll event were handled during it
C24_Witness ==
    /\ pc = "fetching"
    /\ fetched = "pending"
    /\ lastScroll.handled
    /\ lastScroll.at = "fetching"
    /\ innerWidth = 767
    /\ scrollSrc.pageYOffset = JsNum(280)
    /\ log = <<>>

=============================================================================
